---- MODULE Spec2Model ----
(***************************************************************************)
(* A model of objective.py: the Plackett-Luce ranking model, the GP         *)
(* surrogate with its hyper-parameter search, the preference model and the  *)
(* joint_score orchestration.                                               *)
(*                                                                          *)
(* Three state machines share the module, one specification each:           *)
(*   SpecPL  calls on a PlackettLuce object (compute_probability, fit);     *)
(*   SpecGP  calls on a GPModel and on a PreferenceModel object;            *)
(*   SpecJS  one call of joint_score.                                       *)
(*                                                                          *)
(* Floating point.  A float is modelled as an exact rational or one of the  *)
(* two special values inf and nan, so that overflow and underflow of        *)
(* np.exp and the IEEE results of x/0, inf/inf and 0*inf are kept; the      *)
(* rounding of finite results is not modelled.                              *)
(***************************************************************************)
EXTENDS Integers, Sequences, FiniteSets

----------------------------------------------------------------------------
(* Bounds of the model.                                                     *)

\* PlackettLuce objects have 1..MaxCand candidates; a ranking passed in is
\* any sequence over 0..MaxCand-1 of length 0..MaxCand.
MaxCand == 3
\* Finite exponentials exp(u) of a utility range over 1..MaxWeight.
MaxWeight == 2
\* The rankings list handed to fit holds at most MaxRankings rankings.
MaxRankings == 2

----------------------------------------------------------------------------
(* Floats: [k |-> "fin", n |-> numerator, d |-> denominator] with d > 0 and *)
(* the fraction in lowest terms, or k = "inf" (+infinity), or k = "nan".    *)
(* No negative value occurs in the code modelled with them.                 *)

RECURSIVE Gcd(_, _)
Gcd(a, b) == IF b = 0 THEN a ELSE Gcd(b, a % b)

Fin(a, b) == LET g == Gcd(a, b) IN [k |-> "fin", n |-> a \div g, d |-> b \div g]
FInf == [k |-> "inf", n |-> 0, d |-> 1]
FNan == [k |-> "nan", n |-> 0, d |-> 1]
FZero == Fin(0, 1)
FOne == Fin(1, 1)

IsZero(x) == x.k = "fin" /\ x.n = 0

FAdd(x, y) ==
    IF x.k = "nan" \/ y.k = "nan" THEN FNan
    ELSE IF x.k = "inf" \/ y.k = "inf" THEN FInf
    ELSE Fin(x.n * y.d + y.n * x.d, x.d * y.d)

FMul(x, y) ==
    IF x.k = "nan" \/ y.k = "nan" THEN FNan
    ELSE IF x.k = "inf" \/ y.k = "inf"
         THEN (IF IsZero(x) \/ IsZero(y) THEN FNan ELSE FInf)
    ELSE Fin(x.n * y.n, x.d * y.d)

\* numpy float64 division: a zero divisor gives inf or nan with a warning,
\* never an exception.
FDiv(x, y) ==
    IF x.k = "nan" \/ y.k = "nan" THEN FNan
    ELSE IF y.k = "inf" THEN (IF x.k = "inf" THEN FNan ELSE FZero)
    ELSE IF x.k = "inf" THEN FInf
    ELSE IF y.n = 0 THEN (IF x.n = 0 THEN FNan ELSE FInf)
    ELSE Fin(x.n * y.d, x.d * y.n)

----------------------------------------------------------------------------
(* Utilities.  A utility u is represented by what np.exp makes of it:       *)
(* "underflow" (u so negative that exp(u) = 0.0), "overflow" (u so large    *)
(* that exp(u) = inf), or "finite" with exp(u) = ln, a positive integer.    *)

UtilityValues ==
    {[kind |-> "underflow", ln |-> 0], [kind |-> "overflow", ln |-> 0]}
        \cup {[kind |-> "finite", ln |-> w] : w \in 1..MaxWeight}

\* np.exp(u)
Exp(u) ==
    CASE u.kind = "underflow" -> FZero
      [] u.kind = "overflow" -> FInf
      [] OTHER -> Fin(u.ln, 1)

\* u = 0.0, an entry of np.zeros(n)
ZeroUtility == [kind |-> "finite", ln |-> 1]

UtilityVectors(n) == [0..(n - 1) -> UtilityValues]

\* Rankings a caller may pass, well-formed or not.
RankingInputs ==
    UNION {[1..len -> 0..(MaxCand - 1)] : len \in 0..MaxCand}

Range(s) == {s[i] : i \in DOMAIN s}

IsPermutation(r, n) == Len(r) = n /\ Range(r) = 0..(n - 1)

\* Malformed as the specification words it: wrong length or a repeated index.
Malformed(r, n) ==
    Len(r) # n \/ \E i, j \in DOMAIN r : i < j /\ r[i] = r[j]

AllPermutations(n) == {r \in [1..n -> 0..(n - 1)] : Range(r) = 0..(n - 1)}

----------------------------------------------------------------------------
(* PlackettLuce.compute_probability                                         *)

\* remaining = set(range(self.n_candidates))
\* (faulty variant: range(n - 1))
InitialRemaining_Short(n) == 0..(n - 2)
InitialRemaining(n) == 0..(n - 1)

\* sum(np.exp(utilities[j]) for j in remaining)
RECURSIVE Denominator(_, _)
Denominator(remaining, utils) ==
    IF remaining = {} THEN FZero
    ELSE LET j == CHOOSE x \in remaining : TRUE
         IN FAdd(Exp(utils[j]), Denominator(remaining \ {j}, utils))

\* remaining.remove(rank), for rank in remaining
\* (faulty variant: the rank is never removed)
RemoveRank_Keep(remaining, rank) == remaining
RemoveRank(remaining, rank) == remaining \ {rank}

\* The for loop from position i on.  Each iteration appends to steps what it
\* saw: the remaining set as the denominator was summed, and the rank.
\* utilities[rank] raises IndexError for rank outside the vector;
\* remaining.remove(rank) raises KeyError for rank not in remaining.
RECURSIVE CPLoop(_, _, _, _, _, _)
CPLoop(rnk, utils, i, prob, remaining, steps) ==
    IF i > Len(rnk)
    THEN [status |-> "returned", prob |-> prob, remaining |-> remaining,
          steps |-> steps]
    ELSE LET rank == rnk[i] IN
         IF rank \notin DOMAIN utils
         THEN [status |-> "IndexError", prob |-> prob, remaining |-> remaining,
               steps |-> steps]
         ELSE LET numerator == Exp(utils[rank])
                  denominator == Denominator(remaining, utils)
                  prob2 == FMul(prob, FDiv(numerator, denominator))
                  seen == Append(steps, [remaining |-> remaining, rank |-> rank])
              IN IF rank \notin remaining
                 THEN [status |-> "KeyError", prob |-> prob2,
                       remaining |-> remaining, steps |-> seen]
                 ELSE CPLoop(rnk, utils, i + 1, prob2,
                             RemoveRank(remaining, rank), seen)

compute_probability(n, rnk, utils) ==
    CPLoop(rnk, utils, 1, FOne, InitialRemaining(n), <<>>)

NoCall == [status |-> "none", prob |-> FOne, remaining |-> {}, steps |-> <<>>]

----------------------------------------------------------------------------
VARIABLES
    n_candidates,   \* PlackettLuce.n_candidates
    plPc,           \* "idle", "ll_loop" (inside fit), "returned", "raised"
    plOp,           \* the method called: "none", "compute_probability", "fit"
    ranking,        \* the ranking of the latest compute_probability
    utilities,      \* the utilities of the latest compute_probability
    cp,             \* what the latest compute_probability did
    log_prob,       \* log_likelihood's accumulator, held as exp(log_prob)
    llCount,        \* rankings consumed by log_likelihood's loop
    sawMalformed,   \* history: some ranking passed so far was malformed
    fitResult       \* what fit returned: <<>> or the vector exp(result.x)

plVars == <<n_candidates, plPc, plOp, ranking, utilities, cp, log_prob,
            llCount, sawMalformed, fitResult>>

VARIABLES
    dataKind,       \* X_train, y_train: "none" (None), "bad" (fails sklearn's
                    \* validation), "ok"
    nSamples,       \* len(self.X_train), 0 when X_train is None
    gp,             \* self.gp: "None" or the estimator's state
    gpPc,           \* "idle", "search" (inside study.optimize), "returned",
                    \* "raised": how the latest train stands
    n_trials,       \* the argument of the latest train
    trialsStarted,  \* calls of objective in the latest train
    completeTrials, \* trials that returned a finite score
    inSampleFits,   \* gp.fit(X_train, y_train) calls made by objective
    cvCalls,        \* cross_val_score calls made by objective
    foldFits,       \* fold fits asked of cross_val_score
    lastCvK,        \* the cv argument of the latest cross_val_score
    gpPredict,      \* the latest GPModel.predict: "none", "value" or the error
    trainCompleted, \* history: some train returned
    trainFailed,    \* history: some train raised
    prefUtilities,  \* PreferenceModel.utilities: "None" or "set"
    prefPredict,    \* the latest PreferenceModel.predict
    fitCompleted,   \* history: some PreferenceModel.fit returned
    fitFailed       \* history: some PreferenceModel.fit raised

gpVars == <<dataKind, nSamples, gp, gpPc, n_trials, trialsStarted,
            completeTrials, inSampleFits, cvCalls, foldFits, lastCvK,
            gpPredict, trainCompleted, trainFailed>>

prefVars == <<prefUtilities, prefPredict, fitCompleted, fitFailed>>

VARIABLES
    jsPc,           \* where joint_score stands: "start", "evaluated",
                    \* "pref_fitted", "X_built", "perf_trained", "pref_trained",
                    \* "perf_predicted", "pref_predicted", "returned", "raised"
    errors,         \* the arguments of the call
    moving_times,
    jitters,        \* <<"None">> for jitters=None
    params,
    rankingsGiven,  \* FALSE for rankings=None
    lambda_weight,
    perf_values,    \* the locals of joint_score
    pref_values,
    X,
    gp_perf,        \* [made, X_train, y_train, gp]
    gp_pref,
    perf_pred,
    pref_pred,
    jsResult,       \* the array returned
    jsLog,          \* history: the steps taken, <<step, "ok" or "raised">>
    prefFits,       \* history: PreferenceModel.fit calls
    gpMade,         \* history: GPModel objects constructed
    gpTrains,       \* history: GPModel.train calls
    gpPredicts      \* history: GPModel.predict calls, each with its argument
                    \* and outcome

jsVars == <<jsPc, errors, moving_times, jitters, params, rankingsGiven,
            lambda_weight, perf_values, pref_values, X, gp_perf, gp_pref,
            perf_pred, pref_pred, jsResult, jsLog, prefFits, gpMade, gpTrains,
            gpPredicts>>

vars == <<plVars, gpVars, prefVars, jsVars>>

InitPL ==
    /\ n_candidates \in 1..MaxCand
    /\ plPc = "idle"
    /\ plOp = "none"
    /\ ranking = <<>>
    /\ utilities = [i \in 0..(n_candidates - 1) |-> ZeroUtility]
    /\ cp = NoCall
    /\ log_prob = FOne
    /\ llCount = 0
    /\ sawMalformed = FALSE
    /\ fitResult = <<>>

\* The arguments tried in a direct call: every ranking, malformed or not, with
\* the zero utilities, and every permutation with every utility vector
\* (whether the loop raises depends on the ranking alone).
CPInputs(n) ==
    {<<rnk, [i \in 0..(n - 1) |-> ZeroUtility]>> : rnk \in RankingInputs}
        \cup (AllPermutations(n) \X UtilityVectors(n))

\* A direct call compute_probability(rnk, utils).
ComputeProbabilityCall ==
    /\ plPc = "idle"
    /\ \E args \in CPInputs(n_candidates) :
        LET rnk == args[1]
            utils == args[2]
            res == compute_probability(n_candidates, rnk, utils) IN
        /\ plOp' = "compute_probability"
        /\ ranking' = rnk
        /\ utilities' = utils
        /\ cp' = res
        /\ plPc' = IF res.status = "returned" THEN "returned" ELSE "raised"
        /\ sawMalformed' = Malformed(rnk, n_candidates)
    /\ UNCHANGED <<n_candidates, log_prob, llCount, fitResult>>
    /\ UNCHANGED <<gpVars, prefVars, jsVars>>

\* fit(rankings) starts: minimize evaluates the objective at
\* initial_utilities = np.zeros(n_candidates); log_likelihood sets log_prob = 0.
FitBegin ==
    /\ plPc = "idle"
    /\ plOp' = "fit"
    /\ plPc' = "ll_loop"
    /\ utilities' = [i \in 0..(n_candidates - 1) |-> ZeroUtility]
    /\ log_prob' = FOne
    /\ llCount' = 0
    /\ UNCHANGED <<n_candidates, ranking, cp, sawMalformed, fitResult>>
    /\ UNCHANGED <<gpVars, prefVars, jsVars>>

\* One iteration of log_likelihood's loop, on the next ranking of the list:
\* log_prob += np.log(compute_probability(ranking, utilities)).  An exception
\* of compute_probability leaves log_likelihood, the objective, minimize and
\* fit, none of which catches it.
LogLikelihoodIter ==
    /\ plPc = "ll_loop"
    /\ llCount < MaxRankings
    /\ \E rnk \in RankingInputs :
        LET res == compute_probability(n_candidates, rnk, utilities) IN
        /\ ranking' = rnk
        /\ cp' = res
        /\ sawMalformed' = (sawMalformed \/ Malformed(rnk, n_candidates))
        /\ IF res.status = "returned"
           THEN /\ log_prob' = FMul(log_prob, res.prob)
                /\ llCount' = llCount + 1
                /\ plPc' = "ll_loop"
           ELSE /\ plPc' = "raised"
                /\ UNCHANGED <<log_prob, llCount>>
    /\ UNCHANGED <<n_candidates, plOp, utilities, fitResult>>
    /\ UNCHANGED <<gpVars, prefVars, jsVars>>

\* The list is exhausted and the first objective value is computed.  Whether
\* compute_probability raises depends on the rankings alone, so no later
\* evaluation of the objective raises either: BFGS ends at some result.x and fit
\* returns np.exp(result.x).  The optimum is not computed here: any vector of
\* equal finite weights stands for it.
FitReturn ==
    /\ plPc = "ll_loop"
    /\ \E w \in 1..MaxWeight :
        fitResult' = [i \in 0..(n_candidates - 1) |-> Fin(w, 1)]
    /\ plPc' = "returned"
    /\ UNCHANGED <<n_candidates, plOp, ranking, utilities, cp, log_prob,
                   llCount, sawMalformed>>
    /\ UNCHANGED <<gpVars, prefVars, jsVars>>

NextPL ==
    \/ ComputeProbabilityCall
    \/ FitBegin
    \/ LogLikelihoodIter
    \/ FitReturn

\* No PlackettLuce call is made.
QuietPL ==
    /\ n_candidates = 1
    /\ plPc = "idle"
    /\ plOp = "none"
    /\ ranking = <<>>
    /\ utilities = [i \in 0..0 |-> ZeroUtility]
    /\ cp = NoCall
    /\ log_prob = FOne
    /\ llCount = 0
    /\ sawMalformed = FALSE
    /\ fitResult = <<>>

----------------------------------------------------------------------------
(* GPModel and PreferenceModel objects                                      *)

\* len(self.X_train) ranges over 0..MaxSamples.
MaxSamples == 5
\* train is called with n_trials in 0..MaxTrials.
MaxTrials == 2

\* if len(self.X_train) < 5
SmallSampleLimit == 5
\* cv=min(5, len(self.X_train))
MaxFolds == 5

Min(a, b) == IF a < b THEN a ELSE b

\* The branch objective takes: in-sample scoring.
\* (faulty variant: <= for <)
UsesInSample_AtMost(n) == n <= SmallSampleLimit
UsesInSample(n) == n < SmallSampleLimit

\* The cv argument handed to cross_val_score.
CvFolds(n) == Min(MaxFolds, n)

(* scikit-learn's GaussianProcessRegressor, as far as the code relies on it. *)
(* fit(X, y) first validates X and y (consistent lengths, at least one       *)
(* sample, finite numbers) and raises ValueError before it stores anything;  *)
(* then it stores X_train_ and y_train_, optimises the kernel and factors    *)
(* the kernel matrix, raising LinAlgError when that is not positive          *)
(* definite; only then it sets alpha_.  The estimator is therefore           *)
(*   "constructed"  no fit got past validation,                              *)
(*   "data_stored"  a fit stored the data and raised LinAlgError,            *)
(*   "fitted"       a fit returned.                                          *)
(* Validation is decided by the data; whether the factorisation succeeds     *)
(* depends on the data and the kernel parameters and is left open, except    *)
(* that the 1x1 matrix of a single sample is always positive definite.       *)
GPRFitOutcomes(kind, n) ==
    IF kind = "ok" /\ n >= 1
    THEN {"fitted"} \cup (IF n >= 2 THEN {"data_stored"} ELSE {})
    ELSE {"constructed"}

\* predict(X, return_std=True): an estimator without X_train_ answers from the
\* GP prior; one with X_train_ multiplies by alpha_, an AttributeError when fit
\* never set it.
GPRPredict(est) ==
    CASE est = "constructed" -> "value"
      [] est = "data_stored" -> "AttributeError"
      [] OTHER -> "value"

\* cross_val_score(gp, X, y, cv=k, scoring='neg_mean_squared_error') followed
\* by scores.mean(), as the trial sees it.  Inconsistent lengths raise at once;
\* a fold whose fit fails scores nan (error_score=np.nan), which makes the mean
\* nan, and recent releases raise when every fold fails.  "complete": a finite
\* mean; "nan": a nan mean, which optuna records as a failed trial and goes on.
CrossValOutcomes(kind) ==
    IF kind = "ok" THEN {"complete", "nan", "raise"} ELSE {"nan", "raise"}

\* GPModel.predict
PredictOutcome(est) ==
    IF est = "None" THEN "ValueError" ELSE GPRPredict(est)

\* PreferenceModel.predict
\* (faulty variant: the None check is missing)
PrefPredictOutcome_NoGuard(u) == "value"
PrefPredictOutcome(u) ==
    IF u = "None" THEN "ValueError" ELSE "value"

DataStates ==
    {<<"none", 0>>} \cup ({"bad", "ok"} \X (0..MaxSamples))

\* GPModel(X_train, y_train) and PreferenceModel(n) just constructed.
InitGP ==
    /\ \E d \in DataStates : dataKind = d[1] /\ nSamples = d[2]
    /\ gp = "None"
    /\ gpPc = "idle"
    /\ n_trials = 0
    /\ trialsStarted = 0
    /\ completeTrials = 0
    /\ inSampleFits = 0
    /\ cvCalls = 0
    /\ foldFits = 0
    /\ lastCvK = 0
    /\ gpPredict = "none"
    /\ trainCompleted = FALSE
    /\ trainFailed = FALSE
    /\ prefUtilities = "None"
    /\ prefPredict = "none"
    /\ fitCompleted = FALSE
    /\ fitFailed = FALSE

\* gp_perf.X_train = X; gp_perf.y_train = y: the attributes are assigned from
\* outside between calls.
SetData ==
    /\ gpPc # "search"
    /\ \E d \in DataStates : dataKind' = d[1] /\ nSamples' = d[2]
    /\ UNCHANGED <<gp, gpPc, n_trials, trialsStarted, completeTrials,
                   inSampleFits, cvCalls, foldFits, lastCvK, gpPredict,
                   trainCompleted, trainFailed, prefVars>>
    /\ UNCHANGED <<plVars, jsVars>>

\* train(n_trials) up to the first trial: the study is created.
TrainBegin ==
    /\ gpPc # "search"
    /\ n_trials' \in 0..MaxTrials
    /\ gpPc' = "search"
    /\ trialsStarted' = 0
    /\ completeTrials' = 0
    /\ inSampleFits' = 0
    /\ cvCalls' = 0
    /\ foldFits' = 0
    /\ lastCvK' = 0
    /\ UNCHANGED <<dataKind, nSamples, gp, gpPredict, trainCompleted,
                   trainFailed, prefVars>>
    /\ UNCHANGED <<plVars, jsVars>>

\* study.optimize re-raises what objective raises (no catch argument is
\* given), and train does not catch it: the train call ends there.
TrainRaises ==
    /\ gpPc' = "raised"
    /\ trainFailed' = TRUE
    /\ UNCHANGED <<trainCompleted>>

\* A trial with X_train = None: len(self.X_train) raises TypeError.
TrialNoData ==
    /\ gpPc = "search"
    /\ trialsStarted < n_trials
    /\ dataKind = "none"
    /\ trialsStarted' = trialsStarted + 1
    /\ TrainRaises
    /\ UNCHANGED <<dataKind, nSamples, gp, n_trials, completeTrials,
                   inSampleFits, cvCalls, foldFits, lastCvK, gpPredict,
                   prefVars>>
    /\ UNCHANGED <<plVars, jsVars>>

\* A trial on fewer than 5 samples: one fit on the full set, scored in-sample.
TrialInSample ==
    /\ gpPc = "search"
    /\ trialsStarted < n_trials
    /\ dataKind # "none"
    /\ UsesInSample(nSamples)
    /\ trialsStarted' = trialsStarted + 1
    /\ inSampleFits' = inSampleFits + 1
    /\ \E o \in GPRFitOutcomes(dataKind, nSamples) :
        IF o = "fitted"
        THEN /\ completeTrials' = completeTrials + 1
             /\ UNCHANGED <<gpPc, trainCompleted, trainFailed>>
        ELSE /\ TrainRaises
             /\ UNCHANGED completeTrials
    /\ UNCHANGED <<dataKind, nSamples, gp, n_trials, cvCalls, foldFits,
                   lastCvK, gpPredict, prefVars>>
    /\ UNCHANGED <<plVars, jsVars>>

\* A trial on 5 samples or more: cross_val_score with cv = min(5, n).
TrialCrossVal ==
    /\ gpPc = "search"
    /\ trialsStarted < n_trials
    /\ dataKind # "none"
    /\ ~UsesInSample(nSamples)
    /\ trialsStarted' = trialsStarted + 1
    /\ cvCalls' = cvCalls + 1
    /\ lastCvK' = CvFolds(nSamples)
    /\ foldFits' = foldFits + CvFolds(nSamples)
    /\ \E o \in CrossValOutcomes(dataKind) :
        CASE o = "complete" ->
                /\ completeTrials' = completeTrials + 1
                /\ UNCHANGED <<gpPc, trainCompleted, trainFailed>>
          [] o = "nan" ->
                UNCHANGED <<completeTrials, gpPc, trainCompleted, trainFailed>>
          [] OTHER ->
                /\ TrainRaises
                /\ UNCHANGED completeTrials
    /\ UNCHANGED <<dataKind, nSamples, gp, n_trials, inSampleFits, gpPredict,
                   prefVars>>
    /\ UNCHANGED <<plVars, jsVars>>

\* study.optimize has run n_trials trials.  study.best_params raises
\* ValueError when no trial completed; otherwise self.gp is assigned the new
\* estimator and then fitted on the full set.
TrainRefit ==
    /\ gpPc = "search"
    /\ trialsStarted = n_trials
    /\ IF completeTrials = 0
       THEN /\ TrainRaises
            /\ UNCHANGED gp
       ELSE \E o \in GPRFitOutcomes(dataKind, nSamples) :
            /\ gp' = o
            /\ IF o = "fitted"
               THEN /\ gpPc' = "returned"
                    /\ trainCompleted' = TRUE
                    /\ UNCHANGED trainFailed
               ELSE TrainRaises
    /\ UNCHANGED <<dataKind, nSamples, n_trials, trialsStarted, completeTrials,
                   inSampleFits, cvCalls, foldFits, lastCvK, gpPredict,
                   prefVars>>
    /\ UNCHANGED <<plVars, jsVars>>

\* GPModel.predict(X_test)
Predict ==
    /\ gpPc # "search"
    /\ gpPredict' = PredictOutcome(gp)
    /\ UNCHANGED <<dataKind, nSamples, gp, gpPc, n_trials, trialsStarted,
                   completeTrials, inSampleFits, cvCalls, foldFits, lastCvK,
                   trainCompleted, trainFailed, prefVars>>
    /\ UNCHANGED <<plVars, jsVars>>

\* PreferenceModel.fit(rankings): utilities is assigned only when
\* PlackettLuce.fit returns.
PrefFit ==
    /\ \E returned \in BOOLEAN :
        IF returned
        THEN /\ prefUtilities' = "set"
             /\ fitCompleted' = TRUE
             /\ UNCHANGED fitFailed
        ELSE /\ fitFailed' = TRUE
             /\ UNCHANGED <<prefUtilities, fitCompleted>>
    /\ UNCHANGED <<prefPredict, gpVars>>
    /\ UNCHANGED <<plVars, jsVars>>

\* PreferenceModel.predict()
PrefPredict ==
    /\ prefPredict' = PrefPredictOutcome(prefUtilities)
    /\ UNCHANGED <<prefUtilities, fitCompleted, fitFailed, gpVars>>
    /\ UNCHANGED <<plVars, jsVars>>

NextGP ==
    \/ SetData
    \/ TrainBegin
    \/ TrialNoData
    \/ TrialInSample
    \/ TrialCrossVal
    \/ TrainRefit
    \/ Predict
    \/ PrefFit
    \/ PrefPredict

\* No GPModel or PreferenceModel object is used.
QuietGP ==
    /\ InitGP
    /\ dataKind = "none"

----------------------------------------------------------------------------
(* PerformanceModel and joint_score                                         *)

\* errors, moving_times, jitters and params hold 0..MaxLen entries each.
MaxLen == 2

ErrorValues == {0, 1}
TimeValues == {1, 2}
JitterValues == {0, 1}

FSub(x, y) == Fin(x.n * y.d - y.n * x.d, x.d * y.d)

\* np.exp(-k) for the k that occur, to three decimals
ExpNeg(k) ==
    CASE k = 0 -> FOne
      [] k = 1 -> Fin(368, 1000)
      [] OTHER -> Fin(18, 1000)

\* accuracy(error, lam) = np.exp(-lam * error ** 2)
accuracy(error, lam) == ExpNeg(lam * error * error)

\* res_speed(moving_time, jitter, alpha) = 1 / (moving_time + alpha * jitter)
res_speed(moving_time, jitter, alpha) ==
    FDiv(FOne, FAdd(Fin(moving_time, 1), FMul(alpha, Fin(jitter, 1))))

\* f_perf(accuracy_val, speed_val, w1=0.6)
f_perf(accuracy_val, speed_val) ==
    LET w1 == Fin(6, 10)
        w2 == FSub(FOne, w1)
    IN FAdd(FMul(w1, accuracy_val), FMul(w2, speed_val))

\* PerformanceModel.compute_performance, with self.lam = 1.0, self.alpha = 0.5
compute_performance(error, moving_time, jitter) ==
    f_perf(accuracy(error, 1), res_speed(moving_time, jitter, Fin(1, 2)))

\* An optional array argument: given = FALSE stands for None.
NoArray == [given |-> FALSE, a |-> <<>>]
Given(a) == [given |-> TRUE, a |-> a]

\* PerformanceModel.evaluate_batch: zip stops at the shortest of its arguments.
evaluate_batch(errs, times, jits) ==
    LET js == IF jits.given THEN jits.a ELSE [i \in DOMAIN errs |-> 0]
        m == Min(Len(errs), Min(Len(times), Len(js)))
    IN [i \in 1..m |-> compute_performance(errs[i], times[i], js[i])]

\* The params tried: n candidates, each a pair [categorical, continuous].
ParamsOfLen(n) ==
    [i \in 1..n |-> <<<<i % 2, 1>>, <<i, 2 * i, 0, 1>>>>]

\* X = np.array([[*p[0], *p[1]] for p in params])
BuildX(ps) == [i \in DOMAIN ps |-> ps[i][1] \o ps[i][2]]

ConstantArrays(values) ==
    {[i \in 1..n |-> v] : n \in 0..MaxLen, v \in values}

\* if rankings is None: return perf_values
\* (faulty variant: the early return is missing)
FastPath_Never(given) == FALSE
FastPath(given) == ~given

\* What gp_perf and gp_pref are given to train on.
PerfTrainingSet(x, perf, pref) == [X_train |-> x, y_train |-> perf]
\* (faulty variant: gp_pref.y_train = perf_values)
PrefTrainingSet_PerfTargets(x, perf, pref) == [X_train |-> x, y_train |-> perf]
PrefTrainingSet(x, perf, pref) == [X_train |-> x, y_train |-> pref]

\* GPModel.train() on a training set, as one step: what self.gp is afterwards.
\* X and y of different lengths or without a sample fail sklearn's validation
\* in the first trial and self.gp stays None; otherwise train returns
\* ("fitted") or, where a fit can fail numerically, the search fails (self.gp
\* stays None) or the final fit does ("data_stored").
TrainResults(ts) ==
    LET kind == IF Len(ts.X_train) = Len(ts.y_train) THEN "ok" ELSE "bad"
        fits == GPRFitOutcomes(kind, Len(ts.X_train))
    IN IF fits = {"fitted"} THEN fits
       ELSE {"None"} \cup (fits \ {"constructed"})

\* The posterior means of a fitted GP at its own training points: the targets,
\* smoothed.  Any vector of that length could stand here; these are tried.
PredictedMeans(y) ==
    {[i \in DOMAIN y |-> FAdd(y[i], d)] : d \in {FZero, Fin(1, 10)}}

\* joint_values = lambda_weight * perf_pred + (1 - lambda_weight) * pref_pred
\* (faulty variant: the two weights exchanged)
Blend_Swapped(lam, perf, pref) ==
    [i \in DOMAIN perf |->
        FAdd(FMul(lam, pref[i]), FMul(FSub(FOne, lam), perf[i]))]
Blend(lam, perf, pref) ==
    [i \in DOMAIN perf |->
        FAdd(FMul(lam, perf[i]), FMul(FSub(FOne, lam), pref[i]))]

NoGP == [made |-> FALSE, X_train |-> <<>>, y_train |-> <<>>, gp |-> "None"]

InitJS ==
    /\ jsPc = "start"
    /\ errors \in UNION {[1..n -> ErrorValues] : n \in 0..MaxLen}
    /\ moving_times \in ConstantArrays(TimeValues)
    /\ jitters \in {NoArray} \cup {Given(a) : a \in ConstantArrays(JitterValues)}
    /\ params \in {ParamsOfLen(n) : n \in 0..MaxLen}
    /\ rankingsGiven \in BOOLEAN
    /\ lambda_weight \in {FZero, Fin(1, 2), FOne}
    /\ perf_values = <<>>
    /\ pref_values = <<>>
    /\ X = <<>>
    /\ gp_perf = NoGP
    /\ gp_pref = NoGP
    /\ perf_pred = <<>>
    /\ pref_pred = <<>>
    /\ jsResult = <<>>
    /\ jsLog = <<>>
    /\ prefFits = 0
    /\ gpMade = 0
    /\ gpTrains = 0
    /\ gpPredicts = <<>>

jsInputs == <<errors, moving_times, jitters, params, rankingsGiven,
              lambda_weight>>

\* perf_model = PerformanceModel(); perf_values = perf_model.evaluate_batch(..)
JSEvaluate ==
    /\ jsPc = "start"
    /\ perf_values' = evaluate_batch(errors, moving_times, jitters)
    /\ jsLog' = Append(jsLog, <<"evaluate_batch", "ok">>)
    /\ jsPc' = "evaluated"
    /\ UNCHANGED <<jsInputs, pref_values, X, gp_perf, gp_pref, perf_pred,
                   pref_pred, jsResult, prefFits, gpMade, gpTrains, gpPredicts>>
    /\ UNCHANGED <<plVars, gpVars, prefVars>>

\* if rankings is None: return perf_values
JSReturnPerf ==
    /\ jsPc = "evaluated"
    /\ FastPath(rankingsGiven)
    /\ jsResult' = perf_values
    /\ jsPc' = "returned"
    /\ UNCHANGED <<jsInputs, perf_values, pref_values, X, gp_perf, gp_pref,
                   perf_pred, pref_pred, jsLog, prefFits, gpMade, gpTrains,
                   gpPredicts>>
    /\ UNCHANGED <<plVars, gpVars, prefVars>>

\* pref_model = PreferenceModel(len(errors)); pref_values = pref_model.fit(..)
\* fit raises or returns one utility per candidate (see FitReturn).
JSPrefFit ==
    /\ jsPc = "evaluated"
    /\ ~FastPath(rankingsGiven)
    /\ prefFits' = prefFits + 1
    /\ \/ /\ jsPc' = "raised"
          /\ jsLog' = Append(jsLog, <<"pref_fit", "raised">>)
          /\ UNCHANGED pref_values
       \/ /\ \E w \in 1..MaxWeight :
                pref_values' = [i \in 1..Len(errors) |-> Fin(w, 1)]
          /\ jsPc' = "pref_fitted"
          /\ jsLog' = Append(jsLog, <<"pref_fit", "ok">>)
    /\ UNCHANGED <<jsInputs, perf_values, X, gp_perf, gp_pref, perf_pred,
                   pref_pred, jsResult, gpMade, gpTrains, gpPredicts>>
    /\ UNCHANGED <<plVars, gpVars, prefVars>>

\* gp_perf = GPModel(); gp_pref = GPModel(); X = np.array([...])
JSBuildX ==
    /\ jsPc = "pref_fitted"
    /\ gp_perf' = [NoGP EXCEPT !.made = TRUE]
    /\ gp_pref' = [NoGP EXCEPT !.made = TRUE]
    /\ gpMade' = gpMade + 2
    /\ X' = BuildX(params)
    /\ jsLog' = Append(jsLog, <<"build_X", "ok">>)
    /\ jsPc' = "X_built"
    /\ UNCHANGED <<jsInputs, perf_values, pref_values, perf_pred, pref_pred,
                   jsResult, prefFits, gpTrains, gpPredicts>>
    /\ UNCHANGED <<plVars, gpVars, prefVars>>

\* gp_perf.X_train = X; gp_perf.y_train = perf_values; gp_perf.train()
JSTrainPerf ==
    /\ jsPc = "X_built"
    /\ gpTrains' = gpTrains + 1
    /\ LET ts == PerfTrainingSet(X, perf_values, pref_values) IN
       \E est \in TrainResults(ts) :
        /\ gp_perf' = [gp_perf EXCEPT !.X_train = ts.X_train,
                                      !.y_train = ts.y_train, !.gp = est]
        /\ jsPc' = IF est = "fitted" THEN "perf_trained" ELSE "raised"
        /\ jsLog' = Append(jsLog, <<"train_perf",
                                    IF est = "fitted" THEN "ok" ELSE "raised">>)
    /\ UNCHANGED <<jsInputs, perf_values, pref_values, X, gp_pref, perf_pred,
                   pref_pred, jsResult, prefFits, gpMade, gpPredicts>>
    /\ UNCHANGED <<plVars, gpVars, prefVars>>

\* gp_pref.X_train = X; gp_pref.y_train = pref_values; gp_pref.train()
JSTrainPref ==
    /\ jsPc = "perf_trained"
    /\ gpTrains' = gpTrains + 1
    /\ LET ts == PrefTrainingSet(X, perf_values, pref_values) IN
       \E est \in TrainResults(ts) :
        /\ gp_pref' = [gp_pref EXCEPT !.X_train = ts.X_train,
                                      !.y_train = ts.y_train, !.gp = est]
        /\ jsPc' = IF est = "fitted" THEN "pref_trained" ELSE "raised"
        /\ jsLog' = Append(jsLog, <<"train_pref",
                                    IF est = "fitted" THEN "ok" ELSE "raised">>)
    /\ UNCHANGED <<jsInputs, perf_values, pref_values, X, gp_perf, perf_pred,
                   pref_pred, jsResult, prefFits, gpMade, gpPredicts>>
    /\ UNCHANGED <<plVars, gpVars, prefVars>>

\* perf_pred, _ = gp_perf.predict(X)
JSPredictPerf ==
    /\ jsPc = "pref_trained"
    /\ LET out == PredictOutcome(gp_perf.gp) IN
        /\ gpPredicts' = Append(gpPredicts,
                                [model |-> "gp_perf", at |-> X, outcome |-> out])
        /\ jsLog' = Append(jsLog, <<"predict_perf",
                                    IF out = "value" THEN "ok" ELSE "raised">>)
        /\ IF out = "value"
           THEN /\ perf_pred' \in PredictedMeans(gp_perf.y_train)
                /\ jsPc' = "perf_predicted"
           ELSE /\ jsPc' = "raised"
                /\ UNCHANGED perf_pred
    /\ UNCHANGED <<jsInputs, perf_values, pref_values, X, gp_perf, gp_pref,
                   pref_pred, jsResult, prefFits, gpMade, gpTrains>>
    /\ UNCHANGED <<plVars, gpVars, prefVars>>

\* pref_pred, _ = gp_pref.predict(X)
JSPredictPref ==
    /\ jsPc = "perf_predicted"
    /\ LET out == PredictOutcome(gp_pref.gp) IN
        /\ gpPredicts' = Append(gpPredicts,
                                [model |-> "gp_pref", at |-> X, outcome |-> out])
        /\ jsLog' = Append(jsLog, <<"predict_pref",
                                    IF out = "value" THEN "ok" ELSE "raised">>)
        /\ IF out = "value"
           THEN /\ pref_pred' \in PredictedMeans(gp_pref.y_train)
                /\ jsPc' = "pref_predicted"
           ELSE /\ jsPc' = "raised"
                /\ UNCHANGED pref_pred
    /\ UNCHANGED <<jsInputs, perf_values, pref_values, X, gp_perf, gp_pref,
                   perf_pred, jsResult, prefFits, gpMade, gpTrains>>
    /\ UNCHANGED <<plVars, gpVars, prefVars>>

\* joint_values = ...; return joint_values
JSBlend ==
    /\ jsPc = "pref_predicted"
    /\ jsResult' = Blend(lambda_weight, perf_pred, pref_pred)
    /\ jsLog' = Append(jsLog, <<"blend", "ok">>)
    /\ jsPc' = "returned"
    /\ UNCHANGED <<jsInputs, perf_values, pref_values, X, gp_perf, gp_pref,
                   perf_pred, pref_pred, prefFits, gpMade, gpTrains, gpPredicts>>
    /\ UNCHANGED <<plVars, gpVars, prefVars>>

NextJS ==
    \/ JSEvaluate
    \/ JSReturnPerf
    \/ JSPrefFit
    \/ JSBuildX
    \/ JSTrainPerf
    \/ JSTrainPref
    \/ JSPredictPerf
    \/ JSPredictPref
    \/ JSBlend

\* joint_score is not called.
QuietJS ==
    /\ jsPc = "start"
    /\ errors = <<>>
    /\ moving_times = <<>>
    /\ jitters = NoArray
    /\ params = <<>>
    /\ rankingsGiven = FALSE
    /\ lambda_weight = Fin(1, 2)
    /\ perf_values = <<>>
    /\ pref_values = <<>>
    /\ X = <<>>
    /\ gp_perf = NoGP
    /\ gp_pref = NoGP
    /\ perf_pred = <<>>
    /\ pref_pred = <<>>
    /\ jsResult = <<>>
    /\ jsLog = <<>>
    /\ prefFits = 0
    /\ gpMade = 0
    /\ gpTrains = 0
    /\ gpPredicts = <<>>

----------------------------------------------------------------------------
(* The specifications.                                                      *)

StartPL == InitPL /\ QuietGP /\ QuietJS

SpecPL == StartPL /\ [][NextPL]_vars

StartGP == InitGP /\ QuietPL /\ QuietJS

SpecGP == StartGP /\ [][NextGP]_vars

StartJS == InitJS /\ QuietPL /\ QuietGP

SpecJS == StartJS /\ [][NextJS]_vars

----------------------------------------------------------------------------
(* Properties of the PlackettLuce object, under SpecPL.                     *)

RECURSIVE SumOfProbabilities(_, _, _)
SumOfProbabilities(rankings, n, utils) ==
    IF rankings = {} THEN FZero
    ELSE LET r == CHOOSE x \in rankings : TRUE
         IN FAdd(compute_probability(n, r, utils).prob,
                 SumOfProbabilities(rankings \ {r}, n, utils))

AllFinite(utils) == \A i \in DOMAIN utils : utils[i].kind = "finite"

\* C3: compute_probability, driven by fit on a malformed ranking (here one
\* that is not empty, of the wrong length or with a repeated index), does not
\* return a probability, and fit does not go on to return a utility vector.
C3_MalformedRejected ==
    (plOp = "fit" /\ cp.status # "none" /\ ranking # <<>>
        /\ Malformed(ranking, n_candidates)) =>
        /\ cp.status # "returned"
        /\ plPc # "returned"

C10_RemainingSet ==
    (cp.status # "none" /\ IsPermutation(ranking, n_candidates)) =>
        /\ cp.status = "returned"
        /\ Len(cp.steps) = n_candidates
        /\ \A i \in DOMAIN cp.steps :
            /\ cp.steps[i].rank = ranking[i]
            /\ cp.steps[i].remaining =
                   (0..(n_candidates - 1)) \ {ranking[j] : j \in 1..(i - 1)}
            /\ cp.steps[i].rank \in cp.steps[i].remaining
        /\ cp.remaining = {}

\* The second ranking of one log_likelihood, a permutation of three candidates,
\* has been processed.
C10_Witness ==
    /\ plOp = "fit"
    /\ llCount = 2
    /\ n_candidates = MaxCand
    /\ IsPermutation(ranking, n_candidates)
    /\ cp.status = "returned"
    /\ ~sawMalformed

----------------------------------------------------------------------------
(* Properties of the GPModel and PreferenceModel objects, under SpecGP.     *)

\* C1: predict returns a value only on an object whose train (GPModel) or fit
\* (PreferenceModel) has returned at some earlier point; before that, and after
\* calls of train or fit that raised, it signals an error.
C1_PredictNeedsTraining ==
    /\ gpPredict = "value" => trainCompleted
    /\ prefPredict = "value" => fitCompleted
    /\ ~trainCompleted => gpPredict \in {"none", "ValueError", "AttributeError"}
    /\ ~fitCompleted => prefPredict \in {"none", "ValueError"}

\* Both objects have only seen failed train and fit calls, the GPModel one that
\* failed in the final fit, and predict was called on both.
C1_Witness ==
    /\ trainFailed /\ ~trainCompleted
    /\ gp = "data_stored"
    /\ gpPredict = "AttributeError"
    /\ fitFailed /\ ~fitCompleted
    /\ prefPredict = "ValueError"

\* C5: a train(n_trials) call that has ended, by returning or by raising, has
\* evaluated all n_trials trials: no trial aborts the search.
C5_AllTrialsRun ==
    (gpPc \in {"returned", "raised"} /\ dataKind # "none" /\ nSamples >= 1) =>
        trialsStarted = n_trials

\* C6: during a train call every trial so far scored by the training-set size
\* alone: below 5 samples one in-sample fit per trial and no cross-validation;
\* from 5 samples on one cross_val_score per trial with cv = min(5, n) and no
\* in-sample fit.
C6_ScoringBySize ==
    (gpPc = "search" /\ dataKind # "none") =>
        IF nSamples < 5
        THEN /\ inSampleFits = trialsStarted
             /\ cvCalls = 0
             /\ foldFits = 0
        ELSE /\ inSampleFits = 0
             /\ cvCalls = trialsStarted
             /\ foldFits = cvCalls * Min(5, nSamples)
             /\ cvCalls > 0 => lastCvK = Min(5, nSamples)

\* All trials of a search on four samples have run.
C6_Witness ==
    /\ gpPc = "search"
    /\ dataKind = "ok"
    /\ nSamples = 4
    /\ n_trials = MaxTrials
    /\ trialsStarted = n_trials
    /\ inSampleFits = n_trials

----------------------------------------------------------------------------
(* Properties of joint_score, under SpecJS.                                 *)

LengthsDiffer ==
    \/ Len(errors) # Len(moving_times)
    \/ Len(errors) # Len(params)
    \/ jitters.given /\ Len(jitters.a) # Len(errors)

\* C2: with rankings=None no PreferenceModel is fitted and no GPModel is
\* constructed, trained or asked to predict, and the array returned holds
\* compute_performance of the zipped inputs, whatever lambda_weight is.
C2_FastPath ==
    ~rankingsGiven =>
        /\ prefFits = 0
        /\ gpMade = 0
        /\ gpTrains = 0
        /\ gpPredicts = <<>>
        /\ jsPc \in {"start", "evaluated", "returned"}
        /\ jsPc = "returned" =>
               jsResult = evaluate_batch(errors, moving_times, jitters)

\* joint_score returned the performance of two candidates on the fast path.
C2_Witness ==
    /\ ~rankingsGiven
    /\ jsPc = "returned"
    /\ Len(jsResult) = MaxLen
    /\ jsResult[1] # jsResult[MaxLen]

\* C4: joint_score called with errors, moving_times, jitters and params of
\* unequal lengths never returns an array computed from a truncated prefix of
\* the inputs.
C4_MismatchRejected ==
    LengthsDiffer =>
        ~(jsPc = "returned" /\ jsResult # <<>>
             /\ Len(jsResult) < Len(errors))

\* C8: on the rankings path the array returned is perf_pred when lambda_weight
\* is 1.0 and pref_pred when it is 0.0.
C8_BlendBoundary ==
    (jsPc = "returned" /\ rankingsGiven) =>
        /\ lambda_weight = FOne => jsResult = perf_pred
        /\ lambda_weight = FZero => jsResult = pref_pred

\* joint_score returned with lambda_weight = 1.0 and surrogate predictions that
\* differ.
C8_Witness ==
    /\ jsPc = "returned"
    /\ rankingsGiven
    /\ lambda_weight = FOne
    /\ Len(jsResult) = MaxLen
    /\ perf_pred # pref_pred

StepOrder ==
    <<"evaluate_batch", "pref_fit", "build_X", "train_perf", "train_pref",
      "predict_perf", "predict_pref", "blend">>

Logged(step) == \E i \in DOMAIN jsLog : jsLog[i] = <<step, "ok">>

\* C9: on the rankings path the steps taken are a prefix of: performance,
\* preference fit, design matrix, train gp_perf, train gp_pref, predict gp_perf,
\* predict gp_pref, blend; a step that raised is the last one taken; gp_perf is
\* trained on (X, perf_values) and gp_pref on (X, pref_values); every predict
\* is at X, on a model whose train returned, after both trains, and returns a
\* value.
C9_StepOrder ==
    rankingsGiven =>
        /\ Len(jsLog) <= Len(StepOrder)
        /\ \A i \in DOMAIN jsLog :
            /\ jsLog[i][1] = StepOrder[i]
            /\ i < Len(jsLog) => jsLog[i][2] = "ok"
            /\ jsLog[i][2] = "raised" => jsPc = "raised"
        /\ jsPc = "raised" => jsLog[Len(jsLog)][2] = "raised"
        /\ Logged("evaluate_batch") =>
               perf_values = evaluate_batch(errors, moving_times, jitters)
        /\ Logged("build_X") => X = BuildX(params)
        /\ Logged("train_perf") =>
               /\ gp_perf.X_train = X /\ gp_perf.y_train = perf_values
               /\ gp_perf.gp = "fitted"
        /\ Logged("train_pref") =>
               /\ gp_pref.X_train = X /\ gp_pref.y_train = pref_values
               /\ gp_pref.gp = "fitted"
        /\ gpTrains = (IF \E i \in DOMAIN jsLog : jsLog[i][1] = "train_perf"
                       THEN 1 ELSE 0)
                    + (IF \E i \in DOMAIN jsLog : jsLog[i][1] = "train_pref"
                       THEN 1 ELSE 0)
        /\ \A k \in DOMAIN gpPredicts :
            /\ gpPredicts[k].at = X
            /\ gpPredicts[k].outcome = "value"
            /\ gpPredicts[k].model = (IF k = 1 THEN "gp_perf" ELSE "gp_pref")
            /\ Logged("train_perf") /\ Logged("train_pref")

\* joint_score went through every step on two candidates and returned.
C9_Witness ==
    /\ rankingsGiven
    /\ jsPc = "returned"
    /\ Len(jsLog) = Len(StepOrder)
    /\ Len(X) = MaxLen
    /\ gp_perf.y_train # gp_pref.y_train

====
